---- MODULE Spec2Model ----
(***************************************************************************)
(* CyberRiskQuant: the FAIR risk model (models/fair_model.py) and its      *)
(* Monte Carlo engine (models/monte_carlo.py).                             *)
(*                                                                         *)
(* Numbers.  A Python float is modelled as an integer count of ticks,      *)
(* Unit ticks to 1.0.  Inputs are taken on a grid of half units, on which  *)
(* the code's divisions by 2 and 6 are exact; where a quotient is not      *)
(* whole it is cut to a tick, as a float is rounded.  A product of two     *)
(* factor values is kept exactly (LEF in ticks^2, ALE in ticks^3).         *)
(* An Optional value is a sequence of length 0 (None) or 1.                *)
(***************************************************************************)
EXTENDS Integers, Sequences, FiniteSets, TLC

VARIABLES
    model,   \* the FAIRModel object: name, description and its three slots
    sim,     \* the MonteCarloSimulation object: num_simulations, results
    rng,     \* the state of the global random source np.random
    call,    \* the last call made: which one, its arguments, how it ended
    hist,    \* history: what the setters were last given, runs made so far
    threads  \* the run_simulation calls in progress on other objects, one
             \* per thread: its model, its simulation, where it stands

vars == <<model, sim, rng, call, hist, threads>>

(***************************** Optional values *****************************)
None == <<>>
Some(x) == <<x>>
Get(o) == o[1]

(******************************* Bounds ************************************)
\* 1.0 in ticks
Unit == 24
\* largest num_simulations a MonteCarloSimulation is constructed with
MaxN == 2
\* initial states of the random source
MaxSeed == 1
\* run_simulation calls followed in one behaviour
MaxRuns == 2

(************************* Distribution strings ****************************)
\* The strings given as `distribution`: the four the sampler knows, two of
\* them in another letter case, and one it does not know.
Distributions ==
    {"uniform", "triangular", "pert", "lognormal", "Triangular", "PERT", "beta"}

\* str.lower() on those strings
Lower(s) ==
    CASE s = "Triangular" -> "triangular"
      [] s = "PERT" -> "pert"
      [] OTHER -> s

(**************************** Call outcomes ********************************)
\* How a call ends: it returns (exc = "") or raises exc with message msg.
Returned(v) == [exc |-> "", msg |-> "", value |-> Some(v)]
Raised(e, m) == [exc |-> e, msg |-> m, value |-> None]

(*********************** The three input dataclasses ***********************)
InputRecord(cls, mn, mx, ml, d) ==
    [cls |-> cls, min_value |-> mn, max_value |-> mx,
     most_likely |-> ml, distribution |-> d]

\* mutant: the default is applied whatever the distribution
DefaultMostLikely_AnyKind(mn, mx, ml, d) ==
    IF ml = None THEN Some((mn + mx) \div 2) ELSE ml

\* the most_likely default of __post_init__ (the same two lines in each class)
DefaultMostLikely(mn, mx, ml, d) ==
    IF d \in {"triangular", "pert"} /\ ml = None
    THEN Some((mn + mx) \div 2)
    ELSE ml

\* mutant: the range check is missing
TEFInput_NoRangeCheck(mn, mx, ml, d) ==
    IF mn < 0
    THEN Raised("ValueError", "Minimum value cannot be negative")
    ELSE Returned(InputRecord("TEFInput", mn, mx, DefaultMostLikely(mn, mx, ml, d), d))

TEFInput(mn, mx, ml, d) ==
    IF mn < 0
    THEN Raised("ValueError", "Minimum value cannot be negative")
    ELSE IF mx < mn
    THEN Raised("ValueError", "Maximum value must be greater than minimum value")
    ELSE Returned(InputRecord("TEFInput", mn, mx, DefaultMostLikely(mn, mx, ml, d), d))

VulnerabilityInput(mn, mx, ml, d) ==
    IF ~(0 <= mn /\ mn <= Unit)
    THEN Raised("ValueError", "Minimum probability must be between 0 and 1")
    ELSE IF ~(0 <= mx /\ mx <= Unit)
    THEN Raised("ValueError", "Maximum probability must be between 0 and 1")
    ELSE IF mx < mn
    THEN Raised("ValueError", "Maximum value must be greater than minimum value")
    ELSE Returned(InputRecord("VulnerabilityInput", mn, mx,
                              DefaultMostLikely(mn, mx, ml, d), d))

LossInput(mn, mx, ml, d) ==
    IF mn < 0
    THEN Raised("ValueError", "Minimum value cannot be negative")
    ELSE IF mx < mn
    THEN Raised("ValueError", "Maximum value must be greater than minimum value")
    ELSE Returned(InputRecord("LossInput", mn, mx, DefaultMostLikely(mn, mx, ml, d), d))

(******************************* FAIRModel *********************************)
\* FAIRModel.__init__: the three slots start unset
NewFAIRModel(name, description) ==
    [name |-> name, description |-> description,
     tef |-> None, vulnerability |-> None, loss_magnitude |-> None]

\* mutant: the vulnerability setter also clears the loss magnitude
set_vulnerability_Clearing(m, vulnerability) ==
    [m EXCEPT !.vulnerability = Some(vulnerability), !.loss_magnitude = None]

set_threat_event_frequency(m, tef) == [m EXCEPT !.tef = Some(tef)]

set_vulnerability(m, vulnerability) == [m EXCEPT !.vulnerability = Some(vulnerability)]

set_loss_magnitude(m, loss_magnitude) ==
    [m EXCEPT !.loss_magnitude = Some(loss_magnitude)]

\* mutant: the loss magnitude is not looked at
validate_inputs_NoLossCheck(m) ==
    IF m.tef = None
    THEN Raised("ValueError", "Threat Event Frequency not set")
    ELSE IF m.vulnerability = None
    THEN Raised("ValueError", "Vulnerability not set")
    ELSE Returned(TRUE)

\* mutant: the second check raises with the first check's message
validate_inputs_CopiedMessage(m) ==
    IF m.tef = None
    THEN Raised("ValueError", "Threat Event Frequency not set")
    ELSE IF m.vulnerability = None
    THEN Raised("ValueError", "Threat Event Frequency not set")
    ELSE IF m.loss_magnitude = None
    THEN Raised("ValueError", "Loss Magnitude not set")
    ELSE Returned(TRUE)

validate_inputs(m) ==
    IF m.tef = None
    THEN Raised("ValueError", "Threat Event Frequency not set")
    ELSE IF m.vulnerability = None
    THEN Raised("ValueError", "Vulnerability not set")
    ELSE IF m.loss_magnitude = None
    THEN Raised("ValueError", "Loss Magnitude not set")
    ELSE Returned(TRUE)

\* mutant: most_likely is not written out
SlotToDict_NoMostLikely(slot) ==
    IF slot = None
    THEN None
    ELSE Some([min_value |-> Get(slot).min_value,
               max_value |-> Get(slot).max_value,
               most_likely |-> None,
               distribution |-> Get(slot).distribution])

\* one slot of to_dict: a dataclass instance is always truthy, so only an
\* unset slot gives None
SlotToDict(slot) ==
    IF slot = None
    THEN None
    ELSE Some([min_value |-> Get(slot).min_value,
               max_value |-> Get(slot).max_value,
               most_likely |-> Get(slot).most_likely,
               distribution |-> Get(slot).distribution])

to_dict(m) ==
    [name |-> m.name, description |-> m.description,
     tef |-> SlotToDict(m.tef),
     vulnerability |-> SlotToDict(m.vulnerability),
     loss_magnitude |-> SlotToDict(m.loss_magnitude)]

\* from_dict: the model is rebuilt through the constructors and the setters,
\* slot by slot; a constructor that raises ends it
from_dict(data) ==
    LET m0 == NewFAIRModel(data.name, data.description)
        t  == IF data.tef = None THEN Returned(m0)
              ELSE LET d == Get(data.tef)
                       r == TEFInput(d.min_value, d.max_value,
                                     d.most_likely, d.distribution)
                   IN  IF r.exc # "" THEN r
                       ELSE Returned(set_threat_event_frequency(m0, Get(r.value)))
        v  == IF t.exc # "" \/ data.vulnerability = None THEN t
              ELSE LET d == Get(data.vulnerability)
                       r == VulnerabilityInput(d.min_value, d.max_value,
                                               d.most_likely, d.distribution)
                   IN  IF r.exc # "" THEN r
                       ELSE Returned(set_vulnerability(Get(t.value), Get(r.value)))
    IN  IF v.exc # "" \/ data.loss_magnitude = None THEN v
        ELSE LET d == Get(data.loss_magnitude)
                 r == LossInput(d.min_value, d.max_value,
                                d.most_likely, d.distribution)
             IN  IF r.exc # "" THEN r
                 ELSE Returned(set_loss_magnitude(Get(v.value), Get(r.value)))

(**************************** Random source ********************************)
\* np.random is one global generator.  Its state is a number; a draw reads
\* one of Res equally likely cells, U(r) in 0..Res-1 standing for the
\* fraction U(r)/Res of [0,1), and moves the state on by one.
Res == 4
U(r) == r % Res

\* the not-a-number float, which the arithmetic below propagates
NaN == 0 - 1
Mul(a, b) == IF a = NaN \/ b = NaN THEN NaN ELSE a * b

\* floor of the square root
ISqrt(x) == CHOOSE s \in 0..x : s * s <= x /\ (s + 1) * (s + 1) > x

\* rationals <<numerator, denominator>>, as the PERT branch needs them
RDiv(a, b) == <<a[1] * b[2], a[2] * b[1]>>
RMul(a, b) == <<a[1] * b[1], a[2] * b[2]>>
RSub(a, b) == <<a[1] * b[2] - b[1] * a[2], a[2] * b[2]>>
RInt(n) == <<n, 1>>
RPositive(a) == a[1] * a[2] > 0

(******************* _generate_distribution_sample *************************)
\* What the sampler gives: the outcome (value: the sequence drawn), the
\* random source afterwards and the param object afterwards.
Sampled(values, r, param) == [out |-> Returned(values), rng |-> r, param |-> param]
SampleRaised(e, m, r, param) == [out |-> Raised(e, m), rng |-> r, param |-> param]

\* mutant: the upper bound is taken for the width
UniformSample_HighAsWidth(param, size, r) ==
    Sampled([i \in 1..size |->
                param.min_value + (param.max_value * U(r + i - 1)) \div Res],
            r + size, param)

\* np.random.uniform(low, high, size): low + (high - low) * U, U in [0,1)
UniformSample(param, size, r) ==
    Sampled([i \in 1..size |->
                param.min_value
                + ((param.max_value - param.min_value) * U(r + i - 1)) \div Res],
            r + size, param)

\* mutant: the upper half of the triangle is reflected beyond right
TriangularValue_Reflected(left, mode, right, u) ==
    LET base == right - left
        leftbase == mode - left
    IN  IF u * base <= Res * leftbase
        THEN left + ISqrt((u * leftbase * base) \div Res)
        ELSE right + ISqrt(((Res - u) * (right - mode) * base) \div Res)

\* np.random.triangular(left, mode, right, size): the arguments are checked
\* first, then each value is the inverse of the triangular CDF at U
TriangularValue(left, mode, right, u) ==
    LET base == right - left
        leftbase == mode - left
    IN  IF u * base <= Res * leftbase
        THEN left + ISqrt((u * leftbase * base) \div Res)
        ELSE right - ISqrt(((Res - u) * (right - mode) * base) \div Res)

TriangularSample(param, size, r) ==
    IF param.most_likely = None
    THEN SampleRaised("TypeError", "mode is None", r, param)
    ELSE LET left == param.min_value
             mode == Get(param.most_likely)
             right == param.max_value
         IN  IF left > mode THEN SampleRaised("ValueError", "left > mode", r, param)
             ELSE IF mode > right
             THEN SampleRaised("ValueError", "mode > right", r, param)
             ELSE IF left = right
             THEN SampleRaised("ValueError", "left == right", r, param)
             ELSE Sampled([i \in 1..size |->
                              TriangularValue(left, mode, right, U(r + i - 1))],
                          r + size, param)

\* The shape parameters of the PERT branch, for an input whose most_likely
\* is known: mu, v, and alpha = w, beta
PertMu(param) ==
    (param.min_value + 4 * Get(param.most_likely) + param.max_value) \div 6
PertV(param) ==
    RDiv(RInt((PertMu(param) - param.min_value)
              * (param.max_value - PertMu(param))),
         RInt((param.max_value - param.min_value)
              * (param.max_value - param.min_value)))
PertFraction(param) ==
    RDiv(RInt(PertMu(param) - param.min_value),
         RInt(param.max_value - param.min_value))

\* mutant: alpha is given the factor of beta
PertAlpha_Complement(param) ==
    RMul(RSub(RInt(1), PertFraction(param)),
         RSub(RDiv(RInt(1), PertV(param)), RInt(1)))

PertAlpha(param) ==
    RMul(PertFraction(param), RSub(RDiv(RInt(1), PertV(param)), RInt(1)))
PertBeta(param) ==
    RMul(RSub(RInt(1), PertFraction(param)),
         RSub(RDiv(RInt(1), PertV(param)), RInt(1)))

\* mutant: most_likely is taken for the mean
PertSample_ModeAsMean(param0, size, r) ==
    LET param == IF param0.most_likely = None
                 THEN [param0 EXCEPT !.most_likely =
                          Some((param0.min_value + param0.max_value) \div 2)]
                 ELSE param0
        mn == param.min_value
        mx == param.max_value
        range_val == mx - mn
        mu == Get(param.most_likely)
        v == RDiv(RInt((mu - mn) * (mx - mu)), RInt((mx - mn) * (mx - mn)))
        scale == RSub(RDiv(RInt(1), v), RInt(1))
        alpha == RMul(RDiv(RInt(mu - mn), RInt(mx - mn)), scale)
        beta == RMul(RSub(RInt(1), RDiv(RInt(mu - mn), RInt(mx - mn))), scale)
    IN  IF range_val = 0 THEN Sampled([i \in 1..size |-> mn], r, param)
        ELSE IF mu = mn \/ mu = mx THEN Sampled([i \in 1..size |-> mu], r, param)
        ELSE IF ~RPositive(alpha) \/ ~RPositive(beta)
        THEN SampleRaised("ValueError", "a <= 0 or b <= 0", r, param)
        ELSE Sampled([i \in 1..size |->
                         mn + ((2 * U(r + i - 1) + 1) * range_val) \div (2 * Res)],
                     r + size, param)

\* mutant: the constant branches use up the random source as a draw does
PertSample_ConstantsDrawn(param0, size, r) ==
    LET param == IF param0.most_likely = None
                 THEN [param0 EXCEPT !.most_likely =
                          Some((param0.min_value + param0.max_value) \div 2)]
                 ELSE param0
        mn == param.min_value
        mx == param.max_value
        range_val == mx - mn
        mu == (mn + 4 * Get(param.most_likely) + mx) \div 6
        v == RDiv(RInt((mu - mn) * (mx - mu)), RInt((mx - mn) * (mx - mn)))
        scale == RSub(RDiv(RInt(1), v), RInt(1))
        alpha == RMul(RDiv(RInt(mu - mn), RInt(mx - mn)), scale)
        beta == RMul(RSub(RInt(1), RDiv(RInt(mu - mn), RInt(mx - mn))), scale)
    IN  IF range_val = 0 THEN Sampled([i \in 1..size |-> mn], r + size, param)
        ELSE IF mu = mn \/ mu = mx
        THEN Sampled([i \in 1..size |-> mu], r + size, param)
        ELSE IF ~RPositive(alpha) \/ ~RPositive(beta)
        THEN SampleRaised("ValueError", "a <= 0 or b <= 0", r, param)
        ELSE Sampled([i \in 1..size |->
                         mn + ((2 * U(r + i - 1) + 1) * range_val) \div (2 * Res)],
                     r + size, param)

\* The PERT branch.  np.random.beta(alpha, beta, size) refuses a shape
\* parameter that is not positive; its draw is a fraction strictly between 0
\* and 1, here the middle of the cell the random source gives.
PertSample(param0, size, r) ==
    LET param == IF param0.most_likely = None
                 THEN [param0 EXCEPT !.most_likely =
                          Some((param0.min_value + param0.max_value) \div 2)]
                 ELSE param0
        mn == param.min_value
        mx == param.max_value
        range_val == mx - mn
        mu == PertMu(param)
        alpha == PertAlpha(param)
        beta == PertBeta(param)
    IN  IF range_val = 0 THEN Sampled([i \in 1..size |-> mn], r, param)
        ELSE IF mu = mn \/ mu = mx THEN Sampled([i \in 1..size |-> mu], r, param)
        ELSE IF ~RPositive(alpha) \/ ~RPositive(beta)
        THEN SampleRaised("ValueError", "a <= 0 or b <= 0", r, param)
        ELSE Sampled([i \in 1..size |->
                         mn + ((2 * U(r + i - 1) + 1) * range_val) \div (2 * Res)],
                     r + size, param)

\* The infinite floats, and float addition, negation and halving on finite
\* values, the infinities and NaN.
NegInf == 0 - 1000001
PosInf == 0 - NegInf
IsFinite(x) == x # NaN /\ x # NegInf /\ x # PosInf
FloatNeg(a) ==
    IF a = NegInf THEN PosInf ELSE IF a = PosInf THEN NegInf
    ELSE IF a = NaN THEN NaN ELSE 0 - a
FloatAdd(a, b) ==
    IF a = NaN \/ b = NaN THEN NaN
    ELSE IF a = NegInf THEN (IF b = PosInf THEN NaN ELSE NegInf)
    ELSE IF a = PosInf THEN (IF b = NegInf THEN NaN ELSE PosInf)
    ELSE IF ~IsFinite(b) THEN b ELSE a + b
FloatHalf(a) == IF IsFinite(a) THEN a \div 2 ELSE a

\* np.log of a value in ticks, in units of 1/2000 (an even number, so that
\* halving is exact): -inf at 0, and ln 0.5, ln 1, ln 1.5 and ln 2 at the
\* values the inputs take; a warning is issued at 0 and nothing is raised
np_log(x) ==
    CASE x = 0 -> NegInf
      [] 2 * x = Unit -> 0 - 1386
      [] x = Unit -> 0
      [] 2 * x = 3 * Unit -> 810
      [] x = 2 * Unit -> 1386

\* mu = (ln_min + ln_max) / 2
LognormalMu(param) ==
    FloatHalf(FloatAdd(np_log(param.min_value), np_log(param.max_value)))
\* z_95 * sigma, where sigma = (ln_max - ln_min) / (2 * z_95)
LognormalZSigma(param) ==
    FloatHalf(FloatAdd(np_log(param.max_value),
                       FloatNeg(np_log(param.min_value))))

\* The lognormal branch.  With mu and sigma fitted as the code fits them, the
\* draw at the normal quantile z = k * 1.645 is
\* exp(mu + k * 1.645 * sigma) = sqrt(min * max) * (max / min)^(k / 2);
\* the random source picks k among -3, -1, 1, 3, where this is
\* min^2 / max, min, max, max^2 / min.  np.log(0) is -inf: then sigma is inf
\* or nan and a draw is 0 (z < 0) or nan; nothing is raised.
LognormalValue(mn, mx, u) ==
    LET k == <<0 - 3, 0 - 1, 1, 3>>[(u % 4) + 1]
    IN  IF mn = 0 THEN (IF mx = 0 \/ k > 0 THEN NaN ELSE 0)
        ELSE CASE k = 0 - 3 -> (mn * mn) \div mx
               [] k = 0 - 1 -> mn
               [] k = 1 -> mx
               [] OTHER -> (mx * mx) \div mn

LognormalSample(param, size, r) ==
    Sampled([i \in 1..size |->
                LognormalValue(param.min_value, param.max_value, U(r + i - 1))],
            r + size, param)

\* mutant: size is left at its default of 1
generate_distribution_sample_DefaultSize(param, size, r) ==
    LET distribution == Lower(param.distribution)
    IN  CASE distribution = "uniform" -> UniformSample(param, 1, r)
          [] distribution = "triangular" -> TriangularSample(param, 1, r)
          [] distribution = "pert" -> PertSample(param, 1, r)
          [] distribution = "lognormal" -> LognormalSample(param, 1, r)
          [] OTHER -> UniformSample(param, 1, r)

\* mutant: a distribution string that names no branch is refused
generate_distribution_sample_UnknownRefused(param, size, r) ==
    LET distribution == Lower(param.distribution)
    IN  CASE distribution = "uniform" -> UniformSample(param, size, r)
          [] distribution = "triangular" -> TriangularSample(param, size, r)
          [] distribution = "pert" -> PertSample(param, size, r)
          [] distribution = "lognormal" -> LognormalSample(param, size, r)
          [] OTHER -> SampleRaised("ValueError", "Unsupported distribution",
                                   r, param)

\* the dispatch on the lower-cased distribution string
generate_distribution_sample(param, size, r) ==
    LET distribution == Lower(param.distribution)
    IN  CASE distribution = "uniform" -> UniformSample(param, size, r)
          [] distribution = "triangular" -> TriangularSample(param, size, r)
          [] distribution = "pert" -> PertSample(param, size, r)
          [] distribution = "lognormal" -> LognormalSample(param, size, r)
          [] OTHER -> UniformSample(param, size, r)

(************************** MonteCarloSimulation ***************************)
Columns == {"TEF", "Vulnerability", "LEF", "Loss Magnitude", "ALE"}

\* mutant: results starts as a table without rows
NewMonteCarloSimulation_EmptyTable(num_simulations) ==
    [num_simulations |-> num_simulations,
     results |-> Some([c \in Columns |-> <<>>])]

\* MonteCarloSimulation.__init__
NewMonteCarloSimulation(num_simulations) ==
    [num_simulations |-> num_simulations, results |-> None]

\* element-wise product of two sample arrays of one length
Product(a, b) == [i \in 1..Len(a) |-> Mul(a[i], b[i])]

DataFrame(tef, vul, lef, lm, ale) ==
    [c \in Columns |->
        CASE c = "TEF" -> tef
          [] c = "Vulnerability" -> vul
          [] c = "LEF" -> lef
          [] c = "Loss Magnitude" -> lm
          [] OTHER -> ale]

\* mutant: the loss is multiplied by the threat event frequency
SimulationTable_AleFromTef(tef_samples, vulnerability_samples, loss_magnitude_samples) ==
    DataFrame(tef_samples, vulnerability_samples,
              Product(tef_samples, vulnerability_samples),
              loss_magnitude_samples,
              Product(tef_samples, loss_magnitude_samples))

\* the derived columns and the table of run_simulation
SimulationTable(tef_samples, vulnerability_samples, loss_magnitude_samples) ==
    LET lef_samples == Product(tef_samples, vulnerability_samples)
        ale_samples == Product(lef_samples, loss_magnitude_samples)
    IN  DataFrame(tef_samples, vulnerability_samples, lef_samples,
                  loss_magnitude_samples, ale_samples)

\* What run_simulation gives: the outcome (value: the table), and the random
\* source, the model and the simulation object afterwards.  The samplers work
\* on the model's own input objects, so what they change is changed in the
\* model.
RunResult(out, r, m, s) == [out |-> out, rng |-> r, model |-> m, sim |-> s]

\* mutant: a run that fails while sampling drops the table stored before
run_simulation_DropsOnFailure(m, s, r) ==
    LET valid == validate_inputs(m)
        n == s.num_simulations
        t == generate_distribution_sample(Get(m.tef), n, r)
        m1 == [m EXCEPT !.tef = Some(t.param)]
        v == generate_distribution_sample(Get(m.vulnerability), n, t.rng)
        m2 == [m1 EXCEPT !.vulnerability = Some(v.param)]
        l == generate_distribution_sample(Get(m.loss_magnitude), n, v.rng)
        m3 == [m2 EXCEPT !.loss_magnitude = Some(l.param)]
        results == SimulationTable(Get(t.out.value), Get(v.out.value),
                                   Get(l.out.value))
        dropped == [s EXCEPT !.results = None]
    IN  IF valid.exc # "" THEN RunResult(valid, r, m, s)
        ELSE IF t.out.exc # "" THEN RunResult(t.out, t.rng, m1, dropped)
        ELSE IF v.out.exc # "" THEN RunResult(v.out, v.rng, m2, dropped)
        ELSE IF l.out.exc # "" THEN RunResult(l.out, l.rng, m3, dropped)
        ELSE RunResult(Returned(results), l.rng, m3,
                       [s EXCEPT !.results = Some(results)])

\* mutant: a simulation that holds a table returns it and draws nothing
run_simulation_KeepsFirstTable(m, s, r) ==
    LET valid == validate_inputs(m)
        n == s.num_simulations
        t == generate_distribution_sample(Get(m.tef), n, r)
        m1 == [m EXCEPT !.tef = Some(t.param)]
        v == generate_distribution_sample(Get(m.vulnerability), n, t.rng)
        m2 == [m1 EXCEPT !.vulnerability = Some(v.param)]
        l == generate_distribution_sample(Get(m.loss_magnitude), n, v.rng)
        m3 == [m2 EXCEPT !.loss_magnitude = Some(l.param)]
        results == SimulationTable(Get(t.out.value), Get(v.out.value),
                                   Get(l.out.value))
    IN  IF s.results # None THEN RunResult(Returned(Get(s.results)), r, m, s)
        ELSE IF valid.exc # "" THEN RunResult(valid, r, m, s)
        ELSE IF t.out.exc # "" THEN RunResult(t.out, t.rng, m1, s)
        ELSE IF v.out.exc # "" THEN RunResult(v.out, v.rng, m2, s)
        ELSE IF l.out.exc # "" THEN RunResult(l.out, l.rng, m3, s)
        ELSE RunResult(Returned(results), l.rng, m3,
                       [s EXCEPT !.results = Some(results)])

\* mutant: the factors are drawn before the model is validated
run_simulation_DrawsBeforeValidating(m, s, r) ==
    LET valid == validate_inputs(m)
        n == s.num_simulations
        t == generate_distribution_sample(Get(m.tef), n, r)
        m1 == [m EXCEPT !.tef = Some(t.param)]
        v == generate_distribution_sample(Get(m.vulnerability), n, t.rng)
        m2 == [m1 EXCEPT !.vulnerability = Some(v.param)]
        l == generate_distribution_sample(Get(m.loss_magnitude), n, v.rng)
        m3 == [m2 EXCEPT !.loss_magnitude = Some(l.param)]
        results == SimulationTable(Get(t.out.value), Get(v.out.value),
                                   Get(l.out.value))
    IN  IF valid.exc # "" THEN RunResult(valid, r + n, m, s)
        ELSE IF t.out.exc # "" THEN RunResult(t.out, t.rng, m1, s)
        ELSE IF v.out.exc # "" THEN RunResult(v.out, v.rng, m2, s)
        ELSE IF l.out.exc # "" THEN RunResult(l.out, l.rng, m3, s)
        ELSE RunResult(Returned(results), l.rng, m3,
                       [s EXCEPT !.results = Some(results)])

run_simulation(m, s, r) ==
    LET valid == validate_inputs(m)
        n == s.num_simulations
        t == generate_distribution_sample(Get(m.tef), n, r)
        m1 == [m EXCEPT !.tef = Some(t.param)]
        v == generate_distribution_sample(Get(m.vulnerability), n, t.rng)
        m2 == [m1 EXCEPT !.vulnerability = Some(v.param)]
        l == generate_distribution_sample(Get(m.loss_magnitude), n, v.rng)
        m3 == [m2 EXCEPT !.loss_magnitude = Some(l.param)]
        results == SimulationTable(Get(t.out.value), Get(v.out.value),
                                   Get(l.out.value))
    IN  IF valid.exc # "" THEN RunResult(valid, r, m, s)
        ELSE IF t.out.exc # "" THEN RunResult(t.out, t.rng, m1, s)
        ELSE IF v.out.exc # "" THEN RunResult(v.out, v.rng, m2, s)
        ELSE IF l.out.exc # "" THEN RunResult(l.out, l.rng, m3, s)
        ELSE RunResult(Returned(results), l.rng, m3,
                       [s EXCEPT !.results = Some(results)])

(***************************** Statistics **********************************)
\* pandas leaves NaN out of a reduction and gives NaN when nothing is left
Finite(col) == SelectSeq(col, LAMBDA x : x # NaN)
Sorted(col) == SortSeq(Finite(col), LAMBDA a, b : a < b)

RECURSIVE Sum(_)
Sum(col) == IF col = <<>> THEN 0 ELSE Head(col) + Sum(Tail(col))

SeriesMin(col) == IF Finite(col) = <<>> THEN NaN ELSE Sorted(col)[1]
SeriesMax(col) == IF Finite(col) = <<>> THEN NaN ELSE Sorted(col)[Len(Finite(col))]
\* the mean, cut to a whole number
SeriesMean(col) ==
    IF Finite(col) = <<>> THEN NaN ELSE Sum(Finite(col)) \div Len(Finite(col))

\* mutant: the lower of the two nearest order statistics, no interpolation
SeriesQuantile_Lower(col, qn, qd) ==
    LET srt == Sorted(col)
        n == Len(srt)
    IN  IF n = 0 THEN NaN ELSE srt[(qn * (n - 1)) \div qd + 1]

\* Series.quantile(qn / qd), linear interpolation between the two nearest
\* order statistics
SeriesQuantile(col, qn, qd) ==
    LET srt == Sorted(col)
        n == Len(srt)
        lo == (qn * (n - 1)) \div qd
        part == (qn * (n - 1)) % qd
    IN  IF n = 0 THEN NaN
        ELSE IF part = 0 THEN srt[lo + 1]
        ELSE srt[lo + 1] + ((srt[lo + 2] - srt[lo + 1]) * part) \div qd

\* Series.median(): the middle order statistic, or the mean of the two
\* middle ones
SeriesMedian(col) ==
    LET srt == Sorted(col)
        n == Len(srt)
    IN  IF n = 0 THEN NaN
        ELSE IF n % 2 = 1 THEN srt[(n + 1) \div 2]
        ELSE (srt[n \div 2] + srt[n \div 2 + 1]) \div 2

\* the three dictionaries of get_summary_statistics (the standard deviation,
\* a square root of a sum of squares, is left out of the model)
ColumnStats(col) ==
    [min |-> SeriesMin(col), max |-> SeriesMax(col),
     mean |-> SeriesMean(col), median |-> SeriesMedian(col)]

AleStats(col) ==
    [min |-> SeriesMin(col), max |-> SeriesMax(col),
     mean |-> SeriesMean(col), median |-> SeriesMedian(col),
     percentile_10 |-> SeriesQuantile(col, 10, 100),
     percentile_25 |-> SeriesQuantile(col, 25, 100),
     percentile_75 |-> SeriesQuantile(col, 75, 100),
     percentile_90 |-> SeriesQuantile(col, 90, 100),
     percentile_95 |-> SeriesQuantile(col, 95, 100),
     percentile_99 |-> SeriesQuantile(col, 99, 100)]

get_summary_statistics(s) ==
    IF s.results = None
    THEN Raised("ValueError",
                "Simulation hasn't been run yet. Call run_simulation() first.")
    ELSE Returned([ALE |-> AleStats(Get(s.results)["ALE"]),
                   LEF |-> ColumnStats(Get(s.results)["LEF"]),
                   Loss_Magnitude |-> ColumnStats(Get(s.results)["Loss Magnitude"])])

\* mutant: the level 1 is refused with the levels above it
get_value_at_risk_OneRefused(s, qn, qd) ==
    IF s.results = None
    THEN Raised("ValueError",
                "Simulation hasn't been run yet. Call run_simulation() first.")
    ELSE IF qn < 0 \/ qn >= qd
    THEN Raised("ValueError", "percentiles should all be in the interval [0, 1]")
    ELSE Returned(SeriesQuantile(Get(s.results)["ALE"], qn, qd))

\* get_value_at_risk(qn / qd); Series.quantile refuses a level outside [0,1]
get_value_at_risk(s, qn, qd) ==
    IF s.results = None
    THEN Raised("ValueError",
                "Simulation hasn't been run yet. Call run_simulation() first.")
    ELSE IF qn < 0 \/ qn > qd
    THEN Raised("ValueError", "percentiles should all be in the interval [0, 1]")
    ELSE Returned(SeriesQuantile(Get(s.results)["ALE"], qn, qd))

(****************************** The inputs *********************************)
\* Arguments the constructors are tried on: values on the grid of half
\* units from -0.5 to 1.5, most_likely absent or given, every string.
InputValues == {0 - 12, 0, 12, 24, 36}
InputMostLikely == {None, Some(12)}

\* The input objects a model is assembled from when the model alone is
\* exercised ...
Constructed(results) == {Get(out.value) : out \in {o \in results : o.exc = ""}}

ModelMinValues == {0, 24}
ModelMaxValues == {24}
ModelMostLikely == {None, Some(12)}
ModelDistributions == {"uniform", "pert", "Triangular"}

ModelTEFInputs ==
    Constructed({TEFInput(mn, mx, ml, d) :
        mn \in ModelMinValues, mx \in ModelMaxValues,
        ml \in ModelMostLikely, d \in ModelDistributions})
ModelVulnerabilityInputs ==
    Constructed({VulnerabilityInput(mn, mx, ml, d) :
        mn \in ModelMinValues, mx \in ModelMaxValues,
        ml \in ModelMostLikely, d \in ModelDistributions})
ModelLossInputs ==
    Constructed({LossInput(mn, mx, ml, d) :
        mn \in ModelMinValues, mx \in ModelMaxValues,
        ml \in ModelMostLikely, d \in ModelDistributions})

\* ... and when simulations are run on it
RunTEFInputs ==
    Constructed({TEFInput(24, 48, None, "uniform"),
                 TEFInput(24, 48, None, "PERT")})
RunVulnerabilityInputs ==
    Constructed({VulnerabilityInput(12, 24, None, "uniform"),
                 VulnerabilityInput(0, 24, None, "triangular"),
                 VulnerabilityInput(12, 24, None, "lognormal")})
RunLossInputs ==
    Constructed({LossInput(12, 24, None, "lognormal"),
                 LossInput(24, 24, None, "triangular"),
                 LossInput(0, 0, None, "lognormal")})

\* arguments of the inputs the sampler is applied to: bounds that coincide,
\* a lower bound of 0, and a most_likely inside, on, below and above the bounds
SamplerMinValues == {0, 12}
SamplerMaxValues == {0, 12, 36}
SamplerMostLikely == {None, Some(0), Some(6), Some(15)}
InputClasses == {"TEFInput", "VulnerabilityInput", "LossInput"}
NewInput(cls, mn, mx, ml, d) ==
    CASE cls = "TEFInput" -> TEFInput(mn, mx, ml, d)
      [] cls = "VulnerabilityInput" -> VulnerabilityInput(mn, mx, ml, d)
      [] OTHER -> LossInput(mn, mx, ml, d)

Names == {"Ransomware", "DDoS"}
\* confidence levels <<numerator, denominator>>: -1/2, 0, 1/2, 0.95, 1, 3/2
Levels == {<<0 - 1, 2>>, <<0, 1>>, <<1, 2>>, <<95, 100>>, <<1, 1>>, <<3, 2>>}

(***************************** State machine *******************************)
Call(op, arg, out) == [op |-> op, arg |-> arg, out |-> out]

\* model = FAIRModel(name, description); sim = MonteCarloSimulation(model, n)
Constructions(names, sizes, seeds) ==
    /\ \E name \in names :
          /\ model = NewFAIRModel(name, "Custom scenario")
          /\ hist = [runs |-> 0, succeeded |-> FALSE,
                     created |-> [name |-> name, description |-> "Custom scenario"],
                     given |-> [tef |-> None, vulnerability |-> None,
                                loss_magnitude |-> None]]
    /\ \E n \in sizes : sim = NewMonteCarloSimulation(n)
    /\ rng \in seeds
    /\ call = Call("FAIRModel", None, Returned(None))
    /\ threads = <<>>

Init == Constructions({"Ransomware"}, 0..MaxN, 0..MaxSeed)

\* TEFInput(min_value, max_value, most_likely, distribution)
ConstructTEF(mn, mx, ml, d) ==
    /\ call' = Call("TEFInput", Some(<<mn, mx, ml, d>>), TEFInput(mn, mx, ml, d))
    /\ UNCHANGED <<model, sim, rng, hist, threads>>

ConstructVulnerability(mn, mx, ml, d) ==
    /\ call' = Call("VulnerabilityInput", Some(<<mn, mx, ml, d>>),
                    VulnerabilityInput(mn, mx, ml, d))
    /\ UNCHANGED <<model, sim, rng, hist, threads>>

ConstructLoss(mn, mx, ml, d) ==
    /\ call' = Call("LossInput", Some(<<mn, mx, ml, d>>), LossInput(mn, mx, ml, d))
    /\ UNCHANGED <<model, sim, rng, hist, threads>>

\* model.set_threat_event_frequency(tef)
SetThreatEventFrequency(tef) ==
    /\ model' = set_threat_event_frequency(model, tef)
    /\ call' = Call("set_threat_event_frequency",
                    Some([given |-> tef, replaced |-> model.tef # None]),
                    Returned(None))
    /\ hist' = [hist EXCEPT !.given.tef = Some(tef)]
    /\ UNCHANGED <<sim, rng, threads>>

SetVulnerability(vulnerability) ==
    /\ model' = set_vulnerability(model, vulnerability)
    /\ call' = Call("set_vulnerability",
                    Some([given |-> vulnerability,
                          replaced |-> model.vulnerability # None]),
                    Returned(None))
    /\ hist' = [hist EXCEPT !.given.vulnerability = Some(vulnerability)]
    /\ UNCHANGED <<sim, rng, threads>>

SetLossMagnitude(loss_magnitude) ==
    /\ model' = set_loss_magnitude(model, loss_magnitude)
    /\ call' = Call("set_loss_magnitude",
                    Some([given |-> loss_magnitude,
                          replaced |-> model.loss_magnitude # None]),
                    Returned(None))
    /\ hist' = [hist EXCEPT !.given.loss_magnitude = Some(loss_magnitude)]
    /\ UNCHANGED <<sim, rng, threads>>

\* model.validate_inputs()
ValidateInputs ==
    /\ call' = Call("validate_inputs", None, validate_inputs(model))
    /\ UNCHANGED <<model, sim, rng, hist, threads>>

\* FAIRModel.from_dict(model.to_dict())
RoundTrip ==
    /\ call' = Call("from_dict", Some(to_dict(model)), from_dict(to_dict(model)))
    /\ UNCHANGED <<model, sim, rng, hist, threads>>

\* sim = MonteCarloSimulation(model, n)
NewSimulation(n) ==
    /\ sim' = NewMonteCarloSimulation(n)
    /\ call' = Call("MonteCarloSimulation", Some(n), Returned(None))
    /\ hist' = [hist EXCEPT !.succeeded = FALSE]
    /\ UNCHANGED <<model, rng, threads>>

\* sim.run_simulation()
RunSimulation ==
    /\ hist.runs < MaxRuns
    /\ LET res == run_simulation(model, sim, rng)
       IN  /\ model' = res.model
           /\ sim' = res.sim
           /\ rng' = res.rng
           /\ call' = Call("run_simulation",
                           Some([model |-> model, rng |-> rng,
                                 results |-> sim.results]),
                           res.out)
           /\ hist' = [hist EXCEPT !.runs = @ + 1,
                                   !.succeeded = @ \/ res.out.exc = ""]
    /\ UNCHANGED threads

\* sim.get_summary_statistics()
GetSummaryStatistics ==
    /\ call' = Call("get_summary_statistics", None, get_summary_statistics(sim))
    /\ UNCHANGED <<model, sim, rng, hist, threads>>

\* sim.get_value_at_risk(confidence_level)
GetValueAtRisk(level) ==
    /\ call' = Call("get_value_at_risk", Some(level),
                    get_value_at_risk(sim, level[1], level[2]))
    /\ UNCHANGED <<model, sim, rng, hist, threads>>

\* sim._generate_distribution_sample(param, size) on an input a constructor
\* accepted, once from each state of the random source
GenerateDistributionSample(cls, mn, mx, ml, d, size) ==
    /\ call.op = "FAIRModel"
    /\ NewInput(cls, mn, mx, ml, d).exc = ""
    /\ LET param == Get(NewInput(cls, mn, mx, ml, d).value)
           res == generate_distribution_sample(param, size, rng)
       IN  /\ call' = Call("_generate_distribution_sample",
                           Some([param |-> param, size |-> size, rng |-> rng,
                                 after |-> res.param, rng_after |-> res.rng]),
                           res.out)
           /\ rng' = res.rng
    /\ UNCHANGED <<model, sim, hist, threads>>

\* the engine: a model is assembled, simulations are made, run and read
Next ==
    \/ \E x \in RunTEFInputs : SetThreatEventFrequency(x)
    \/ \E x \in RunVulnerabilityInputs : SetVulnerability(x)
    \/ \E x \in RunLossInputs : SetLossMagnitude(x)
    \/ \E n \in 0..MaxN : NewSimulation(n)
    \/ RunSimulation
    \/ GetSummaryStatistics
    \/ \E level \in Levels : GetValueAtRisk(level)

Spec == Init /\ [][Next]_vars

\* the input constructors alone
NextInput ==
    \E mn \in InputValues, mx \in InputValues,
       ml \in InputMostLikely, d \in Distributions :
        \/ ConstructTEF(mn, mx, ml, d)
        \/ ConstructVulnerability(mn, mx, ml, d)
        \/ ConstructLoss(mn, mx, ml, d)

InitInput == Constructions({"Ransomware"}, {0}, {0})

SpecInput == InitInput /\ [][NextInput]_vars

\* the sampler alone, on every input the constructors accept
NextSampler ==
    \E cls \in InputClasses, mn \in SamplerMinValues, mx \in SamplerMaxValues,
       ml \in SamplerMostLikely, d \in Distributions, size \in 0..MaxN :
        GenerateDistributionSample(cls, mn, mx, ml, d, size)

InitSampler == Constructions({"Ransomware"}, {0}, 0..(Res - 1))

SpecSampler == InitSampler /\ [][NextSampler]_vars

\* Two threads of one process, each calling run_simulation on a simulation
\* and a model of its own.  np.random is the one global random source of the
\* process; a call of one of its methods is atomic (RandomState holds a lock
\* for the length of a call), the calls of two threads interleave.
Threads == {1, 2}
ThreadModels ==
    {set_loss_magnitude(
         set_vulnerability(
             set_threat_event_frequency(
                 NewFAIRModel("Ransomware", "Custom scenario"), tef),
             VulnerabilityInput(12, 24, None, "uniform").value[1]),
         loss) : tef \in RunTEFInputs, loss \in RunLossInputs}
NoSamples == [tef |-> <<>>, vulnerability |-> <<>>, loss_magnitude |-> <<>>]
NewThread(m, n) ==
    [model |-> m, sim |-> NewMonteCarloSimulation(n), pc |-> "ready",
     started |-> None, samples |-> NoSamples, out |-> None]

InitThreads ==
    /\ model = NewFAIRModel("Ransomware", "Custom scenario")
    /\ hist = [runs |-> 0, succeeded |-> FALSE,
               created |-> [name |-> "Ransomware",
                            description |-> "Custom scenario"],
               given |-> [tef |-> None, vulnerability |-> None,
                          loss_magnitude |-> None]]
    /\ sim = NewMonteCarloSimulation(0)
    /\ call = Call("FAIRModel", None, Returned(None))
    /\ rng \in 0..MaxSeed
    /\ threads \in [Threads -> {NewThread(m, n) : m \in ThreadModels,
                                                   n \in 1..MaxN}]

\* run_simulation, entered: self.model.validate_inputs()
BeginRun(t) ==
    /\ threads[t].pc = "ready"
    /\ LET valid == validate_inputs(threads[t].model)
       IN  threads' = [threads EXCEPT
               ![t].started = Some([model |-> threads[t].model, rng |-> rng]),
               ![t].pc = IF valid.exc = "" THEN "tef" ELSE "done",
               ![t].out = IF valid.exc = "" THEN None ELSE Some(valid)]
    /\ UNCHANGED <<model, sim, rng, call, hist>>

\* run_simulation, one of its three calls of the sampler, in the order TEF,
\* Vulnerability, Loss Magnitude
DrawSamples(t) ==
    /\ threads[t].pc \in {"tef", "vulnerability", "loss_magnitude"}
    /\ LET slot == threads[t].pc
           res == generate_distribution_sample(
                      Get(threads[t].model[slot]),
                      threads[t].sim.num_simulations, rng)
       IN  /\ rng' = res.rng
           /\ threads' = [threads EXCEPT
                  ![t].model[slot] = Some(res.param),
                  ![t].samples[slot] =
                      IF res.out.exc = "" THEN Get(res.out.value) ELSE <<>>,
                  ![t].pc = IF res.out.exc # "" THEN "done"
                            ELSE IF slot = "tef" THEN "vulnerability"
                            ELSE IF slot = "vulnerability" THEN "loss_magnitude"
                            ELSE "table",
                  ![t].out = IF res.out.exc # "" THEN Some(res.out) ELSE None]
    /\ UNCHANGED <<model, sim, call, hist>>

\* run_simulation, its end: the products, the table, self.results, return
FinishRun(t) ==
    /\ threads[t].pc = "table"
    /\ LET results == SimulationTable(threads[t].samples.tef,
                                      threads[t].samples.vulnerability,
                                      threads[t].samples.loss_magnitude)
       IN  threads' = [threads EXCEPT
               ![t].sim.results = Some(results),
               ![t].out = Some(Returned(results)),
               ![t].pc = "done"]
    /\ UNCHANGED <<model, sim, rng, call, hist>>

NextThreads ==
    \E t \in Threads :
        \/ BeginRun(t)
        \/ DrawSamples(t)
        \/ FinishRun(t)

SpecThreads == InitThreads /\ [][NextThreads]_vars

(******************************** Pages ***********************************)
\* The models the pages run.  load_sample_scenarios and load_case_studies give
\* most_likely inside the bounds and triangular, pert or lognormal inputs; the
\* risk-analysis form gives lower-cased distribution strings.  Values are
\* scaled to the tick grid.
FilledModel(name, tef, vulnerability, loss_magnitude) ==
    set_loss_magnitude(
        set_vulnerability(
            set_threat_event_frequency(NewFAIRModel(name, "Custom scenario"),
                                       Get(tef.value)),
            Get(vulnerability.value)),
        Get(loss_magnitude.value))
CaseStudies ==
    {FilledModel("Data Breach",
                 TEFInput(12, 72, Some(24), "triangular"),
                 VulnerabilityInput(6, 18, Some(12), "triangular"),
                 LossInput(12, 36, Some(18), "pert")),
     FilledModel("Ransomware",
                 TEFInput(6, 24, Some(12), "triangular"),
                 VulnerabilityInput(6, 18, Some(12), "triangular"),
                 LossInput(12, 24, Some(18), "lognormal"))}
FormModels ==
    {FilledModel("Custom", tef, vulnerability, loss_magnitude) :
        tef \in {TEFInput(24, 48, None, "uniform"),
                 TEFInput(24, 48, Some(36), "triangular")},
        vulnerability \in {VulnerabilityInput(12, 24, None, "uniform")},
        loss_magnitude \in {LossInput(12, 36, Some(18), "pert"),
                            LossInput(12, 24, None, "lognormal")}}

\* results = simulation.run_simulation(); simulation.get_summary_statistics():
\* how the lines shared by run_simulation of the risk-analysis page,
\* display_case_study and the load-into-analysis button end, given how the
\* run ended
RunThenSummarize(ran) ==
    IF ran.out.exc # "" THEN ran
    ELSE RunResult(get_summary_statistics(ran.sim), ran.rng, ran.model, ran.sim)

\* compare_case_studies on two selected cases, after its first loop has run
\* a simulation per case (first, second: how those runs ended): the second
\* loop takes the statistics of a MonteCarloSimulation it constructs for each
\* case
compare_case_studies(first, second, n) ==
    LET stats1 == get_summary_statistics(NewMonteCarloSimulation(n))
        stats2 == get_summary_statistics(NewMonteCarloSimulation(n))
    IN  IF first.out.exc # "" THEN first
        ELSE IF second.out.exc # ""
        THEN RunResult(second.out, second.rng, first.model, first.sim)
        ELSE IF stats1.exc # ""
        THEN RunResult(stats1, second.rng, first.model,
                       NewMonteCarloSimulation(n))
        ELSE IF stats2.exc # ""
        THEN RunResult(stats2, second.rng, second.model,
                       NewMonteCarloSimulation(n))
        ELSE RunResult(Returned(<<Get(stats1.value), Get(stats2.value)>>),
                       second.rng, second.model, NewMonteCarloSimulation(n))

\* one handler of a page: what it leaves in the objects it worked on
Page(op, res) ==
    /\ hist.runs < MaxRuns
    /\ model' = res.model
    /\ sim' = res.sim
    /\ rng' = res.rng
    /\ call' = Call(op, Some([rng |-> rng]), res.out)
    /\ hist' = [hist EXCEPT !.runs = @ + 1,
                            !.succeeded = res.sim.results # None]
    /\ UNCHANGED threads

\* pages/1_Risk_Analysis.py: the form is submitted;
\* pages/2_Case_Studies.py: display_case_study, and the button that loads a
\* case into the analysis.  Each constructs a MonteCarloSimulation, runs it
\* and asks it for the statistics.
RunPage(op, m, n) ==
    \E ran \in {run_simulation(m, NewMonteCarloSimulation(n), rng)} :
        Page(op, RunThenSummarize(ran))

\* pages/2_Case_Studies.py: compare_case_studies
CompareCaseStudies(m1, m2, n) ==
    \E first \in {run_simulation(m1, NewMonteCarloSimulation(n), rng)} :
        \E second \in {run_simulation(m2, NewMonteCarloSimulation(n),
                                      first.rng)} :
            Page("compare_case_studies", compare_case_studies(first, second, n))

PageModels ==
    {<<"risk_analysis", FormModels>>, <<"display_case_study", CaseStudies>>,
     <<"load_case_study", CaseStudies>>}

NextPages ==
    \/ \E page \in PageModels : \E m \in page[2], n \in 1..MaxN :
          RunPage(page[1], m, n)
    \/ \E m1 \in CaseStudies, n \in 1..MaxN :
          \E m2 \in CaseStudies \ {m1} : CompareCaseStudies(m1, m2, n)

InitPages == Constructions({"Ransomware"}, {0}, 0..MaxSeed)

SpecPages == InitPages /\ [][NextPages]_vars

\* the model alone: setters, validation, serialization
NextModel ==
    \/ \E x \in ModelTEFInputs : SetThreatEventFrequency(x)
    \/ \E x \in ModelVulnerabilityInputs : SetVulnerability(x)
    \/ \E x \in ModelLossInputs : SetLossMagnitude(x)
    \/ ValidateInputs
    \/ RoundTrip

InitModel == Constructions(Names, {0}, {0})

SpecModel == InitModel /\ [][NextModel]_vars

(******************************* Claims ************************************)
Slots == {"tef", "vulnerability", "loss_magnitude"}
Unset(m) == {slot \in Slots : m[slot] = None}
\* the message that names a slot as missing
NotSet(slot) ==
    CASE slot = "tef" -> "Threat Event Frequency not set"
      [] slot = "vulnerability" -> "Vulnerability not set"
      [] OTHER -> "Loss Magnitude not set"
\* the first unset slot in the order the slots are checked
FirstUnset(m) ==
    IF m.tef = None THEN "tef"
    ELSE IF m.vulnerability = None THEN "vulnerability" ELSE "loss_magnitude"

RanSimulation == call.op = "run_simulation"
RunSucceeded == RanSimulation /\ call.out.exc = ""
ModelBeforeRun == Get(call.arg).model
RngBeforeRun == Get(call.arg).rng
\* the table the simulation held when the run was called
ResultsBeforeRun == Get(call.arg).results

\* C1: run_simulation on a model with at least one slot unset raises an error
\* whose message names a slot that is unset, returns no table and stores none.
C1_IncompleteModelFails ==
    (RanSimulation /\ Unset(ModelBeforeRun) # {}) =>
        /\ call.out.exc = "ValueError"
        /\ \E slot \in Unset(ModelBeforeRun) : call.out.msg = NotSet(slot)
        /\ call.out.value = None
        /\ hist.succeeded = FALSE => sim.results = None

\* run_simulation was called with only loss_magnitude missing, and the error
\* names Loss Magnitude
C1_Witness ==
    /\ RanSimulation
    /\ Unset(ModelBeforeRun) = {"loss_magnitude"}
    /\ call.out.msg = "Loss Magnitude not set"

Validated == call.op = "validate_inputs"

\* C2 as claimed: validate_inputs succeeds exactly when no slot is unset, and
\* when it fails the failure names every unset slot.
C2_NamesEveryUnsetSlot ==
    Validated =>
        /\ call.out.exc = "" <=> Unset(model) = {}
        /\ call.out.exc # "" =>
              \A slot \in Unset(model) : call.out.msg = NotSet(slot)

\* C2, amended: validate_inputs succeeds exactly when no slot is unset, and
\* when it fails the failure names one slot, the first unset one in the order
\* tef, vulnerability, loss_magnitude.
C2_NamesFirstUnsetSlot ==
    Validated =>
        /\ call.out.exc = "" <=> Unset(model) = {}
        /\ call.out.exc = "" => call.out.value = Some(TRUE)
        /\ call.out.exc # "" =>
              /\ call.out.exc = "ValueError"
              /\ call.out.msg = NotSet(FirstUnset(model))

\* validation failed on a model with two slots unset and named the first
C2_Witness ==
    /\ Validated
    /\ Unset(model) = {"vulnerability", "loss_magnitude"}
    /\ call.out.msg = "Vulnerability not set"

ConstructedInput == call.op \in {"TEFInput", "VulnerabilityInput", "LossInput"}
ArgMin == Get(call.arg)[1]
ArgMax == Get(call.arg)[2]
ArgMostLikely == Get(call.arg)[3]
ArgDistribution == Get(call.arg)[4]

\* what the data model asks of an input's bounds
BoundsValid ==
    /\ ArgMin <= ArgMax
    /\ IF call.op = "VulnerabilityInput"
       THEN 0 <= ArgMin /\ ArgMin <= Unit /\ 0 <= ArgMax /\ ArgMax <= Unit
       ELSE ArgMin >= 0

\* C3: an input is constructed exactly when min_value <= max_value and its
\* domain bound holds; otherwise a ValueError is raised; a constructed input
\* holds min_value and max_value as they were given.
C3_ConstructionValidates ==
    ConstructedInput =>
        /\ call.out.exc = "" <=> BoundsValid
        /\ call.out.exc # "" => call.out.exc = "ValueError" /\ call.out.value = None
        /\ call.out.exc = "" =>
              /\ Get(call.out.value).min_value = ArgMin
              /\ Get(call.out.value).max_value = ArgMax

\* an input with min_value = max_value was constructed
C3_Witness ==
    /\ call.op = "TEFInput"
    /\ ArgMin = ArgMax
    /\ call.out.exc = ""

C5_SettersReplaceOwnSlot ==
    /\ \A slot \in Slots : model[slot] = hist.given[slot]
    /\ model.name = hist.created.name
    /\ model.description = hist.created.description

\* set_vulnerability has replaced an earlier vulnerability while the other
\* two slots were set
C5_Witness ==
    /\ call.op = "set_vulnerability"
    /\ Get(call.arg).replaced
    /\ model.vulnerability = Some(Get(call.arg).given)
    /\ model.tef # None
    /\ model.loss_magnitude # None

\* C6: from_dict(to_dict(m)) returns a model with m's name and description
\* and, slot by slot, m's min_value, max_value, most_likely and distribution;
\* an unset slot stays unset and a most_likely of None stays None.
C6_DictRoundTrip ==
    call.op = "from_dict" =>
        /\ call.out.exc = ""
        /\ Get(call.out.value).name = model.name
        /\ Get(call.out.value).description = model.description
        /\ \A slot \in Slots :
              IF model[slot] = None
              THEN Get(call.out.value)[slot] = None
              ELSE /\ Get(call.out.value)[slot] # None
                   /\ \A f \in {"min_value", "max_value", "most_likely", "distribution"} :
                         Get(Get(call.out.value)[slot])[f] = Get(model[slot])[f]

\* a model was rebuilt that has a slot unset, a slot whose most_likely is
\* None and a slot whose most_likely was defaulted
C6_Witness ==
    /\ call.op = "from_dict"
    /\ call.out.exc = ""
    /\ model.tef = None
    /\ model.vulnerability # None
    /\ Get(model.vulnerability).most_likely = None
    /\ model.loss_magnitude # None
    /\ Get(model.loss_magnitude).distribution = "pert"
    /\ Get(Get(call.out.value).loss_magnitude).most_likely = Some(12)

\* C7: a run_simulation that succeeds returns a table of the five columns,
\* each num_simulations long.
C7_TableShape ==
    RunSucceeded =>
        /\ DOMAIN Get(call.out.value) = Columns
        /\ \A c \in Columns : Len(Get(call.out.value)[c]) = sim.num_simulations

\* a run of two samples succeeded
C7_Witness ==
    /\ RunSucceeded
    /\ sim.num_simulations >= 2
    /\ Len(Get(call.out.value)["ALE"]) >= 2

\* the three factor draws of the last run, made in the order TEF,
\* Vulnerability, loss magnitude from the random source as the run found it
DrawnTEF ==
    generate_distribution_sample(Get(ModelBeforeRun.tef), sim.num_simulations,
                                 RngBeforeRun)
DrawnVulnerability ==
    generate_distribution_sample(Get(ModelBeforeRun.vulnerability),
                                 sim.num_simulations, DrawnTEF.rng)
DrawnLoss ==
    generate_distribution_sample(Get(ModelBeforeRun.loss_magnitude),
                                 sim.num_simulations, DrawnVulnerability.rng)

\* C8: in the table a run returns, the factor columns are the factors' draws
\* and in every row LEF = TEF * Vulnerability and ALE = LEF * Loss Magnitude.
C8_RowArithmetic ==
    RunSucceeded =>
        LET t == Get(call.out.value)
        IN  /\ t["TEF"] = Get(DrawnTEF.out.value)
            /\ t["Vulnerability"] = Get(DrawnVulnerability.out.value)
            /\ t["Loss Magnitude"] = Get(DrawnLoss.out.value)
            /\ \A i \in 1..sim.num_simulations :
                  /\ t["LEF"][i] = Mul(t["TEF"][i], t["Vulnerability"][i])
                  /\ t["ALE"][i] = Mul(t["LEF"][i], t["Loss Magnitude"][i])

\* a run returned a row whose three factors differ and are not zero
C8_Witness ==
    /\ RunSucceeded
    /\ \E i \in 1..sim.num_simulations :
          LET t == Get(call.out.value)
          IN  /\ t["TEF"][i] > 0
              /\ t["Vulnerability"][i] > 0
              /\ t["TEF"][i] # t["Vulnerability"][i]
              /\ t["Loss Magnitude"][i] > 1
              /\ t["ALE"][i] = t["TEF"][i] * t["Vulnerability"][i] * t["Loss Magnitude"][i]

AskedStatistics == call.op \in {"get_summary_statistics", "get_value_at_risk"}

\* C9: while no run_simulation has succeeded on the simulation object,
\* get_summary_statistics and get_value_at_risk raise and return nothing.
C9_NoRunNoStatistics ==
    (AskedStatistics /\ ~hist.succeeded) =>
        /\ call.out.exc = "ValueError"
        /\ call.out.value = None

\* the summary was asked after a run that failed, and was refused
C9_Witness ==
    /\ call.op = "get_summary_statistics"
    /\ ~hist.succeeded
    /\ hist.runs > 0
    /\ call.out.exc = "ValueError"

\* C10: get_summary_statistics raises when the stored table has no rows.
C10_EmptyTableRefused ==
    (/\ call.op = "get_summary_statistics"
     /\ sim.results # None
     /\ Len(Get(sim.results)["ALE"]) = 0) => call.out.exc # ""

AskedValueAtRisk == call.op = "get_value_at_risk"
LevelNum == Get(call.arg)[1]
LevelDen == Get(call.arg)[2]
LevelInRange == 0 <= LevelNum /\ LevelNum <= LevelDen

\* C11: get_value_at_risk raises a ValueError for a confidence level outside
\* [0,1], and once a run has succeeded it returns a value for every level
\* inside [0,1].
C11_LevelValidated ==
    AskedValueAtRisk =>
        /\ ~LevelInRange => call.out.exc = "ValueError" /\ call.out.value = None
        /\ (LevelInRange /\ hist.succeeded) =>
              /\ call.out.exc = ""
              /\ call.out.value = Some(SeriesQuantile(Get(sim.results)["ALE"],
                                                      LevelNum, LevelDen))

\* after a run that succeeded the level 1 was answered
C11_Witness ==
    /\ AskedValueAtRisk
    /\ hist.succeeded
    /\ LevelNum = LevelDen
    /\ call.out.exc = ""

\* after a run that succeeded the level 3/2 was refused
C11_WitnessRefused ==
    /\ AskedValueAtRisk
    /\ hist.succeeded
    /\ LevelNum > LevelDen
    /\ call.out.exc = "ValueError"

\* C12: on a table with rows, get_value_at_risk(0.5) is the median of the ALE
\* column, the value get_summary_statistics gives as the ALE median.
C12_HalfIsMedian ==
    (/\ AskedValueAtRisk
     /\ 2 * LevelNum = LevelDen
     /\ sim.results # None
     /\ Len(Get(sim.results)["ALE"]) > 0) =>
        /\ call.out.exc = ""
        /\ Get(call.out.value) = SeriesMedian(Get(sim.results)["ALE"])
        /\ Get(call.out.value) = Get(get_summary_statistics(sim).value).ALE.median

\* the level 0.5 was asked on a table of two rows with different losses
C12_Witness ==
    /\ AskedValueAtRisk
    /\ 2 * LevelNum = LevelDen
    /\ sim.results # None
    /\ Len(Get(sim.results)["ALE"]) = 2
    /\ Get(sim.results)["ALE"][1] # Get(sim.results)["ALE"][2]
    /\ 2 * Get(call.out.value) =
          Get(sim.results)["ALE"][1] + Get(sim.results)["ALE"][2]

Sampled_ == call.op = "_generate_distribution_sample"
SampledParam == Get(call.arg).param
SampledSize == Get(call.arg).size
SampledFrom == Get(call.arg).rng
SampledKind == Lower(SampledParam.distribution)
SampledValues == Get(call.out.value)
KnownKinds == {"uniform", "triangular", "pert", "lognormal"}

\* C13: the sampler applied to a uniform input with min_value = max_value = c
\* and a size n returns n values, each of them c, and raises nothing.
C13_DegenerateUniform ==
    (/\ Sampled_
     /\ SampledKind = "uniform"
     /\ SampledParam.min_value = SampledParam.max_value) =>
        /\ call.out.exc = ""
        /\ Len(SampledValues) = SampledSize
        /\ \A i \in 1..SampledSize : SampledValues[i] = SampledParam.min_value

\* two values were drawn from the uniform input with both bounds at 12, the
\* second of them at a random-source state that is not 0
C13_Witness ==
    /\ Sampled_
    /\ SampledKind = "uniform"
    /\ SampledParam.min_value = 12
    /\ SampledParam.max_value = 12
    /\ SampledSize = 2
    /\ U(SampledFrom + 1) > 0
    /\ SampledValues = <<12, 12>>

\* C14: every value the sampler returns for a triangular or a pert input lies
\* between the input's min_value and max_value, bounds included.
C14_WithinBounds ==
    (/\ Sampled_
     /\ SampledKind \in {"triangular", "pert"}
     /\ call.out.exc = "") =>
        \A i \in 1..Len(SampledValues) :
            /\ SampledParam.min_value <= SampledValues[i]
            /\ SampledValues[i] <= SampledParam.max_value

\* a triangular input gave a value above its most_likely and below max_value
C14_Witness ==
    /\ Sampled_
    /\ SampledKind = "triangular"
    /\ call.out.exc = ""
    /\ \E i \in 1..Len(SampledValues) :
          /\ SampledValues[i] > Get(SampledParam.most_likely)
          /\ SampledValues[i] < SampledParam.max_value

\* a pert input gave a value strictly between its bounds
C14_WitnessPert ==
    /\ Sampled_
    /\ SampledKind = "pert"
    /\ call.out.exc = ""
    /\ \E i \in 1..Len(SampledValues) :
          /\ SampledValues[i] > SampledParam.min_value
          /\ SampledValues[i] < SampledParam.max_value

\* C15: for a distribution string that is none of uniform, triangular, pert and
\* lognormal the sampler raises nothing and returns what the uniform branch
\* returns for the same bounds, size and random-source state.
C15_UnknownKindIsUniform ==
    (Sampled_ /\ SampledKind \notin KnownKinds) =>
        LET uniform == generate_distribution_sample(
                           [SampledParam EXCEPT !.distribution = "uniform"],
                           SampledSize, SampledFrom)
        IN  /\ call.out.exc = ""
            /\ call.out = uniform.out
            /\ Get(call.arg).rng_after = uniform.rng

\* two values were drawn for the distribution string "beta" between 0 and 36
C15_Witness ==
    /\ Sampled_
    /\ SampledParam.distribution = "beta"
    /\ SampledParam.min_value = 0
    /\ SampledParam.max_value = 36
    /\ SampledSize = 2
    /\ call.out.exc = ""
    /\ SampledValues[1] # SampledValues[2]

\* C16: run_simulation leaves the model's name, description and three slots,
\* with every field of the inputs they hold, as they were before the call.
C16_InputsUnchanged ==
    RanSimulation => model = ModelBeforeRun

\* C17: of two run_simulation calls on separate simulations and separate
\* models, run in two threads, each ends as it ends when it runs alone from
\* the state the random source had when it began, however the two interleave.
C17_RunsIsolated ==
    \A t \in Threads :
        threads[t].pc = "done" =>
            LET alone == run_simulation(Get(threads[t].started).model,
                                        NewMonteCarloSimulation(
                                            threads[t].sim.num_simulations),
                                        Get(threads[t].started).rng)
            IN  /\ Get(threads[t].out) = alone.out
                /\ threads[t].sim = alone.sim

\* C19: run_simulation on a model whose three slots hold inputs the
\* constructors accepted, with num_simulations at least 1, raises nothing and
\* returns a table in which every number is finite.
C19_CompleteModelRuns ==
    (/\ RanSimulation
     /\ Unset(ModelBeforeRun) = {}
     /\ sim.num_simulations >= 1) =>
        /\ call.out.exc = ""
        /\ \A c \in Columns :
              \A i \in 1..Len(Get(call.out.value)[c]) :
                  Get(call.out.value)[c][i] # NaN

\* C20: an input that reaches the triangular branch has a most_likely that is
\* not None and lies between min_value and max_value; an input that reaches
\* the PERT branch has a most_likely that is not None.
C20_MostLikelyKnown ==
    Sampled_ =>
        /\ SampledKind = "triangular" =>
              /\ SampledParam.most_likely # None
              /\ SampledParam.min_value <= Get(SampledParam.most_likely)
              /\ Get(SampledParam.most_likely) <= SampledParam.max_value
        /\ SampledKind = "pert" => SampledParam.most_likely # None

PageOps == {"risk_analysis", "display_case_study", "load_case_study",
            "compare_case_studies"}

\* C21: no handler of a page ends in the error of get_summary_statistics on a
\* simulation that has not been run: each asks for the statistics of a
\* simulation on which run_simulation has succeeded.
C21_PagesSummarizeAfterRun ==
    call.op \in PageOps =>
        call.out.msg #
            "Simulation hasn't been run yet. Call run_simulation() first."

\* C22: a run_simulation call that raises, on an incomplete model or while
\* sampling, leaves the simulation's stored results as they were before the
\* call, absent or the table of the last run that succeeded, and
\* get_summary_statistics answers afterwards as it did before.
C22_FailedRunKeepsResults ==
    [][(/\ hist'.runs = hist.runs + 1
        /\ call'.op = "run_simulation"
        /\ call'.out.exc # "") =>
           /\ sim' = sim
           /\ get_summary_statistics(sim') = get_summary_statistics(sim)]_vars

\* a run failed while sampling on a simulation that holds the table of an
\* earlier run
C22_Witness ==
    /\ RanSimulation
    /\ call.out.exc # ""
    /\ Unset(ModelBeforeRun) = {}
    /\ sim.results # None
    /\ hist.succeeded

\* six times the PERT mean mu = (min + 4 * most_likely + max) / 6
SixMu(param) ==
    param.min_value + 4 * Get(param.most_likely) + param.max_value
SampledAfter == Get(call.arg).rng_after
ZeroModePert ==
    /\ Sampled_
    /\ SampledKind = "pert"
    /\ SampledParam.min_value = 0
    /\ SampledParam.most_likely = Some(0)
    /\ SampledParam.max_value > 0

\* C23 as claimed: for a pert input with min_value 0, most_likely 0 and a
\* max_value above 0 the mean mu equals min_value, and every value drawn is mu.
C23_ZeroModeIsBoundary ==
    ZeroModePert =>
        /\ SixMu(SampledParam) = 6 * SampledParam.min_value
        /\ call.out.exc = ""
        /\ \A i \in 1..Len(SampledValues) :
              6 * SampledValues[i] = SixMu(SampledParam)

\* C23, amended: for a pert input with min_value 0, most_likely 0 and a
\* max_value above 0 the mean mu is max_value / 6, strictly between the
\* bounds; the values come from the Beta draw, one state of the random source
\* each, and lie strictly between min_value and max_value.
C23_ZeroModeDrawsBeta ==
    ZeroModePert =>
        /\ SixMu(SampledParam) = SampledParam.max_value
        /\ call.out.exc = ""
        /\ Len(SampledValues) = SampledSize
        /\ SampledAfter = SampledFrom + SampledSize
        /\ \A i \in 1..Len(SampledValues) :
              /\ SampledParam.min_value < SampledValues[i]
              /\ SampledValues[i] < SampledParam.max_value

\* two values that differ were drawn for the pert input 0, 0, 36
C23_Witness ==
    /\ ZeroModePert
    /\ SampledParam.max_value = 36
    /\ SampledSize = 2
    /\ SampledValues[1] # SampledValues[2]

PertSampled == Sampled_ /\ SampledKind = "pert"
SampledRange == SampledParam.max_value - SampledParam.min_value
MuOnBound ==
    /\ SampledParam.most_likely # None
    /\ \/ SixMu(SampledParam) = 6 * SampledParam.min_value
       \/ SixMu(SampledParam) = 6 * SampledParam.max_value

\* C24: for a pert input with max_value = min_value every value drawn is
\* min_value; for a pert input with a range that is not 0 whose mean mu equals
\* min_value or max_value every value drawn is mu; in both cases size values
\* are returned and the random source is left in the state it was in.
C24_PertShortCircuits ==
    /\ (PertSampled /\ SampledRange = 0) =>
          /\ call.out.exc = ""
          /\ Len(SampledValues) = SampledSize
          /\ \A i \in 1..SampledSize : SampledValues[i] = SampledParam.min_value
          /\ SampledAfter = SampledFrom
    /\ (PertSampled /\ SampledRange # 0 /\ MuOnBound) =>
          /\ call.out.exc = ""
          /\ Len(SampledValues) = SampledSize
          /\ \A i \in 1..SampledSize : 6 * SampledValues[i] = SixMu(SampledParam)
          /\ SampledAfter = SampledFrom

\* two values were drawn for the pert input 12, 6, 36, whose mean is 12
C24_Witness ==
    /\ PertSampled
    /\ SampledParam.min_value = 12
    /\ SampledParam.max_value = 36
    /\ SampledParam.most_likely = Some(6)
    /\ SampledSize = 2
    /\ SampledValues = <<12, 12>>
    /\ SampledAfter = SampledFrom

\* two values were drawn for the pert input 12, 15, 12, whose range is 0
C24_WitnessRange ==
    /\ PertSampled
    /\ SampledRange = 0
    /\ SampledParam.min_value = 12
    /\ SampledSize = 2
    /\ SampledValues = <<12, 12>>

\* rationals in lowest terms, their sum and their equality
RECURSIVE GCD(_, _)
GCD(a, b) == IF b = 0 THEN a ELSE GCD(b, a % b)
RReduced(a) ==
    LET g == GCD(IF a[1] < 0 THEN 0 - a[1] ELSE a[1],
                 IF a[2] < 0 THEN 0 - a[2] ELSE a[2])
    IN  IF g = 0 THEN a ELSE <<a[1] \div g, a[2] \div g>>
RAdd(a, b) == RReduced(<<a[1] * b[2] + b[1] * a[2], a[2] * b[2]>>)
REqual(a, b) == a[1] * b[2] = b[1] * a[2]

\* the input as the PERT branch uses it, most_likely known
PertParam == Get(call.arg).after
ModeWithinBounds ==
    /\ PertSampled
    /\ SampledParam.min_value < SampledParam.max_value
    /\ PertParam.min_value <= Get(PertParam.most_likely)
    /\ Get(PertParam.most_likely) <= PertParam.max_value

\* C25: for a pert input with min_value < max_value and most_likely between
\* them, mu lies strictly between min_value and max_value, v is above 0 and at
\* most 1/4, alpha and beta are above 0, alpha / (alpha + beta) is
\* (mu - min_value) / (max_value - min_value), and the Beta draw is made.
C25_PertShapePositive ==
    ModeWithinBounds =>
        LET alpha == RReduced(PertAlpha(PertParam))
            beta == RReduced(PertBeta(PertParam))
            v == PertV(PertParam)
        IN  /\ 6 * PertParam.min_value < SixMu(PertParam)
            /\ SixMu(PertParam) < 6 * PertParam.max_value
            /\ v[2] > 0 /\ v[1] > 0 /\ 4 * v[1] <= v[2]
            /\ RPositive(alpha)
            /\ RPositive(beta)
            /\ REqual(RReduced(RDiv(alpha, RAdd(alpha, beta))),
                      PertFraction(PertParam))
            /\ call.out.exc = ""
            /\ SampledAfter = SampledFrom + SampledSize

\* a value was drawn for the pert input 0, 6, 36, whose mean 10 is not the
\* middle of the bounds
C25_Witness ==
    /\ ModeWithinBounds
    /\ PertParam.min_value = 0
    /\ PertParam.max_value = 36
    /\ PertParam.most_likely = Some(6)
    /\ SampledSize >= 1
    /\ call.out.exc = ""

RunTable == Get(call.out.value)

\* C26: in every row of a table that run_simulation returns TEF is at least 0,
\* Vulnerability is between 0 and 1, Loss Magnitude is at least 0, LEF is
\* between 0 and TEF, and ALE is at least 0.
C26_FactorsInRange ==
    RunSucceeded =>
        \A i \in 1..Len(RunTable["TEF"]) :
            /\ RunTable["TEF"][i] >= 0
            /\ RunTable["Vulnerability"][i] >= 0
            /\ RunTable["Vulnerability"][i] <= Unit
            /\ RunTable["Loss Magnitude"][i] >= 0
            /\ RunTable["LEF"][i] >= 0
            /\ RunTable["LEF"][i] <= RunTable["TEF"][i] * Unit
            /\ RunTable["ALE"][i] >= 0

\* C27: a run depends only on the model's slots, num_simulations and the random
\* source as they are when it is called: its outcome, the table it stores and
\* the random source it leaves are those of the same run on a simulation that
\* never ran.
C27_RunsIndependent ==
    RanSimulation =>
        LET fresh == run_simulation(ModelBeforeRun,
                                    NewMonteCarloSimulation(sim.num_simulations),
                                    RngBeforeRun)
        IN  /\ call.out = fresh.out
            /\ rng = fresh.rng
            /\ call.out.exc = "" => sim.results = fresh.sim.results

\* a run succeeded on a simulation that held the table of an earlier run and
\* returned a table with another TEF column
C27_Witness ==
    /\ RunSucceeded
    /\ ResultsBeforeRun # None
    /\ Get(ResultsBeforeRun)["TEF"] # RunTable["TEF"]

\* C28: run_simulation validates before it draws and draws TEF, Vulnerability
\* and loss magnitude in that order: a run refused by validation leaves the
\* random source as it was, and a run that succeeds leaves it as the third of
\* those draws left it.
C28_ValidatesThenDraws ==
    /\ (RanSimulation /\ Unset(ModelBeforeRun) # {}) => rng = RngBeforeRun
    /\ RunSucceeded =>
          /\ RunTable["TEF"] = Get(DrawnTEF.out.value)
          /\ RunTable["Vulnerability"] = Get(DrawnVulnerability.out.value)
          /\ RunTable["Loss Magnitude"] = Get(DrawnLoss.out.value)
          /\ rng = DrawnLoss.rng

\* a run succeeded and advanced the random source
C28_Witness == RunSucceeded /\ rng # RngBeforeRun

\* a run was refused by validation
C28_WitnessRefused == RanSimulation /\ Unset(ModelBeforeRun) # {}

\* a <= b as floats compare: false when either side is NaN
FloatLeq(a, b) == a # NaN /\ b # NaN /\ a <= b
\* the levels of Levels that lie in [0, 1]
UnitLevels == {level \in Levels : 0 <= level[1] /\ level[1] <= level[2]}
StoredALE == Get(sim.results)["ALE"]
ALESummary == Get(get_summary_statistics(sim).value).ALE
ValueAtRisk(level) == Get(get_value_at_risk(sim, level[1], level[2]).value)

\* C29: for every non-empty stored table the ALE summary is ordered min <=
\* percentile_10 <= percentile_25 <= median <= percentile_75 <= percentile_90
\* <= percentile_95 <= percentile_99 <= max, the mean lies between min and max,
\* get_value_at_risk does not decrease as the level grows, and it is the
\* minimum at level 0 and the maximum at level 1.
C29_SummaryOrdered ==
    (sim.results # None /\ StoredALE # <<>>) =>
        /\ FloatLeq(ALESummary.min, ALESummary.percentile_10)
        /\ FloatLeq(ALESummary.percentile_10, ALESummary.percentile_25)
        /\ FloatLeq(ALESummary.percentile_25, ALESummary.median)
        /\ FloatLeq(ALESummary.median, ALESummary.percentile_75)
        /\ FloatLeq(ALESummary.percentile_75, ALESummary.percentile_90)
        /\ FloatLeq(ALESummary.percentile_90, ALESummary.percentile_95)
        /\ FloatLeq(ALESummary.percentile_95, ALESummary.percentile_99)
        /\ FloatLeq(ALESummary.percentile_99, ALESummary.max)
        /\ FloatLeq(ALESummary.min, ALESummary.mean)
        /\ FloatLeq(ALESummary.mean, ALESummary.max)
        /\ \A p \in UnitLevels, q \in UnitLevels :
              p[1] * q[2] <= q[1] * p[2] =>
                  FloatLeq(ValueAtRisk(p), ValueAtRisk(q))
        /\ ValueAtRisk(<<0, 1>>) = ALESummary.min
        /\ ValueAtRisk(<<1, 1>>) = ALESummary.max

LognormalSampled == Sampled_ /\ SampledKind = "lognormal"

\* C30: for every lognormal input the constructors accept, the fitted mu and
\* sigma are finite, sigma is at least 0, mu - 1.645 * sigma is ln(min_value)
\* and mu + 1.645 * sigma is ln(max_value).
C30_LognormalFit ==
    LognormalSampled =>
        LET mu == LognormalMu(SampledParam)
            zsigma == LognormalZSigma(SampledParam)
        IN  /\ IsFinite(mu)
            /\ IsFinite(zsigma)
            /\ zsigma >= 0
            /\ FloatAdd(mu, FloatNeg(zsigma)) = np_log(SampledParam.min_value)
            /\ FloatAdd(mu, zsigma) = np_log(SampledParam.max_value)

====
